---- MODULE Spec2Model ----
(***************************************************************************)
(* Lifecycle model of the two programs of kortschak/scheduler:             *)
(*   scheduler  (main.go)           cron driven Pub/Sub publisher          *)
(*   listener   (listener/main.go)  Pub/Sub subscriber                     *)
(* One behaviour is one run of one of the two programs (prog) against a    *)
(* Pub/Sub bus whose calls may fail, with an operator who may interrupt    *)
(* and a run timer that may expire.                                        *)
(***************************************************************************)
EXTENDS Integers, Sequences, FiniteSets, TLC

\* ---------------------------------------------------------------- bounds
MaxJobs == 2          \* longest job list of a scheduler configuration
MaxTicks == 2         \* cron triggers fired in one run
MaxInterrupts == 2    \* interrupt signals delivered in one run
MaxSubs == 2          \* longest subscription list of a listener configuration

\* ------------------------------------------------------- configuration
Destinations == {"Pub/Sub", "pub/sub", "HTTP"}
TopicNames == {"a", "b"}
Frequencies == {"* * * * *", "bogus"}
Durations == {0, 1}
SubIDs == {"a", "b"}
TopicCount == Cardinality(TopicNames)

Payloads == {"hello cron!", "bye"}

\* type job struct: the fields main reads to build the topic and the entry.
\* A field main never reads for a job has one value only: topic, frequency
\* and payload of a job that is skipped, the payload of a job whose entry is
\* refused.
JobSet ==
  {j \in [dest : Destinations, topic : TopicNames, freq : Frequencies, payload : Payloads] :
     /\ j.dest = "HTTP" => (j.topic = "a" /\ j.freq = "* * * * *")
     /\ (j.dest = "HTTP" \/ j.freq = "bogus") => j.payload = "hello cron!"}

\* values of SubscriptionConfig.ExpirationPolicy (an interface value): what the
\* yaml decoder leaves there (nothing, a string, an int, anything else) and
\* the time.Duration main stores, counted in seconds
ExpAbsent == [kind |-> "nil", text |-> "", n |-> 0]
ExpString(s) == [kind |-> "string", text |-> s, n |-> 0]
ExpInt(i) == [kind |-> "int", text |-> "", n |-> i]
ExpBool == [kind |-> "bool", text |-> "", n |-> 1]
ExpDuration(sec) == [kind |-> "duration", text |-> "", n |-> sec]

\* time.ParseDuration on the strings of the configurations: ok and seconds
ParseDuration(text) ==
  IF text = "1h" THEN [ok |-> TRUE, sec |-> 60 * 60]
  ELSE IF text = "90s" THEN [ok |-> TRUE, sec |-> 90]
  ELSE [ok |-> FALSE, sec |-> 0]

\* type subscription struct: the fields main reads to create the subscription;
\* of Config, the expiration policy and one other field (the ack deadline)
SubSet == [topic : TopicNames, id : SubIDs, ack : {0}, exp : {ExpAbsent}]

\* isEmptyConfig: reflect.DeepEqual with the zero SubscriptionConfig
isEmptyConfig(sub) == sub.ack = 0 /\ sub.exp = ExpAbsent

RECURSIVE SeqsUpTo(_, _)
SeqsUpTo(S, n) ==
  IF n = 0 THEN {<<>>}
  ELSE LET shorter == SeqsUpTo(S, n - 1)
       IN  shorter \cup {Append(s, x) : s \in {q \in shorter : Len(q) = n - 1}, x \in S}

Range(s) == {s[n] : n \in 1..Len(s)}

\* strings.ToLower on the destination strings of the configuration
ToLower(s) == IF s = "Pub/Sub" THEN "pub/sub" ELSE s

\* variant of IsPubSub: the comparison without strings.ToLower
IsPubSub_CaseSensitive(j) == j.dest = "pub/sub"

\* the `continue` test of the job loop
IsPubSub(j) == ToLower(j.dest) = "pub/sub"

\* cron.AddFunc parses the spec with the standard five field parser
ValidCronspec(freq) == freq = "* * * * *"

VARIABLES
  prog,        \* which program this run is
  jobs,        \* cfg.Jobs
  duration,    \* -timeout flag, 0 is forever
  pc,          \* position of main
  exitCode,    \* status of the process once it is gone, -1 while it runs
  idx,         \* index of the range loop main is in
  t,           \* topic returned by CreateTopic in the current iteration
  topics,      \* var topics []*pubsub.Topic
  entries,     \* entries registered with the cron engine (job indices)
  running,     \* the cron engine's clock loop is alive
  invs,        \* goroutines started by the cron engine, one per trigger
  notified,    \* signal.Notify(ch, os.Interrupt) is in force
  ch,          \* number of signals buffered in ch (capacity 1)
  timerOn,     \* the run timer / context deadline is armed
  fired,       \* the run duration has expired
  interrupts,  \* interrupts delivered so far
  cancelling,  \* "cancelling" has been printed
  k,           \* index of the teardown loop
  busTopics,   \* topics existing on the bus
  created,     \* topics created by this run, in order
  dels,        \* delete calls issued per topic
  stops,       \* topics on which Stop was called
  subs,        \* cfg.Subscriptions
  all,         \* all := len(cfg.Subscriptions) == 0
  topit,       \* topics the topic iterator has still to return
  ctxDone,     \* ctx is cancelled or past its deadline
  tasks,       \* receive goroutines started by main, one per created subscription
  watcher,     \* state of the goroutine that waits for ch or ctx.Done()
  busSubs,     \* subscriptions existing on the bus
  createdSubs, \* subscriptions created by this run, in order
  existed,     \* ids for which CreateSubscription answered AlreadyExists
  sdels,       \* delete calls issued per subscription
  it,          \* subscriptions the clean up iterator has still to return
  itErr,       \* the clean up iterator has returned an error
  after,       \* what follows deleteAllSubscriptions: "failure" or "release"
  ticks,       \* entries the cron clock loop has found due, in order
  passes,      \* resource deletion passes begun
  defaultExp,  \* cfg.DefaultConfig.ExpirationPolicy
  subConfigs   \* ExpirationPolicy of the subConfig of each CreateSubscription call

schedVars == <<jobs, t, topics, entries, running, invs, k, created, dels, stops, ticks>>
vars == <<prog, jobs, duration, pc, exitCode, idx, t, topics, entries, running,
          invs, notified, ch, timerOn, fired, interrupts, cancelling, k,
          busTopics, created, dels, stops, subs, all, topit, ctxDone, tasks,
          watcher, busSubs, createdSubs, existed, sdels, it, itErr, after,
          ticks, passes, defaultExp, subConfigs>>
listenVars == <<subs, all, topit, ctxDone, tasks, watcher, busSubs, createdSubs,
                existed, sdels, it, itErr, after, defaultExp, subConfigs>>

NoTopic == "none"
Alive == exitCode = -1

InitScheduler ==
  /\ prog = "scheduler"
  /\ jobs \in SeqsUpTo(JobSet, MaxJobs)
  /\ duration \in Durations
  /\ pc = "jobs"
  /\ exitCode = -1
  /\ idx = 1
  /\ t = NoTopic
  /\ topics = <<>>
  /\ entries = <<>>
  /\ running = FALSE
  /\ invs = <<>>
  /\ notified = FALSE
  /\ ch = 0
  /\ timerOn = FALSE
  /\ fired = FALSE
  /\ interrupts = 0
  /\ cancelling = FALSE
  /\ k = 1
  /\ busTopics = {}
  /\ created = <<>>
  /\ dels = [n \in TopicNames |-> 0]
  /\ stops = {}
  /\ subs = <<>>
  /\ all = FALSE
  /\ topit = {}
  /\ ctxDone = FALSE
  /\ tasks = <<>>
  /\ watcher = "none"
  /\ busSubs = {}
  /\ createdSubs = <<>>
  /\ existed = {}
  /\ sdels = [n \in SubIDs |-> 0]
  /\ it = {}
  /\ itErr = FALSE
  /\ after = "none"
  /\ ticks = <<>>
  /\ passes = 0
  /\ defaultExp = ExpAbsent
  /\ subConfigs = <<>>

\* the listener before the first statement modelled (the normalisation loop)
ListenerStart ==
  /\ prog = "listener"
  /\ pc = "normalise"
  /\ exitCode = -1
  /\ idx = 1
  /\ jobs = <<>>
  /\ t = NoTopic
  /\ topics = <<>>
  /\ entries = <<>>
  /\ running = FALSE
  /\ invs = <<>>
  /\ notified = FALSE
  /\ ch = 0
  /\ timerOn = FALSE
  /\ fired = FALSE
  /\ interrupts = 0
  /\ cancelling = FALSE
  /\ k = 1
  /\ created = <<>>
  /\ dels = [n \in TopicNames |-> 0]
  /\ stops = {}
  /\ all = FALSE
  /\ topit = {}
  /\ ctxDone = FALSE
  /\ tasks = <<>>
  /\ watcher = "none"
  /\ createdSubs = <<>>
  /\ existed = {}
  /\ sdels = [n \in SubIDs |-> 0]
  /\ it = {}
  /\ itErr = FALSE
  /\ after = "none"
  /\ ticks = <<>>
  /\ passes = 0
  /\ subConfigs = <<>>

InitListener ==
  /\ subs \in SeqsUpTo(SubSet, MaxSubs)
  /\ duration \in Durations
  /\ busTopics \in SUBSET TopicNames
  /\ busSubs \in SUBSET SubIDs
  /\ defaultExp = ExpAbsent
  /\ ListenerStart

\* listener configurations that differ in their expiration policies: one topic
\* and id, a Config that is empty, has only an ack deadline, or has an
\* expiration policy of each shape
ExpInputs == {ExpAbsent, ExpString("1h"), ExpString("junk"), ExpInt(3600), ExpBool}
CfgSubSet ==
  {c \in [topic : {"a"}, id : {"a"}, ack : {0, 10}, exp : ExpInputs] :
     c.ack # 0 => c.exp = ExpAbsent}
DefaultExps == {ExpAbsent, ExpString("1h"), ExpInt(3600), ExpBool}

InitConfig ==
  /\ subs \in SeqsUpTo(CfgSubSet, MaxSubs)
  /\ duration \in Durations
  /\ busTopics \in {{"a"}, TopicNames}
  /\ busSubs = {}
  /\ defaultExp \in DefaultExps
  /\ ListenerStart

\* os.Exit(code), log.Fatalf, or return from main; pc keeps the place
Exit(code, at) == /\ pc' = at
                  /\ exitCode' = code

\* for _, t := range topics { t.Stop() }
StopTopics == stops' = stops \cup Range(topics)

\* ------------------------------------------------------ scheduler: main
\* destination is not Pub/Sub: continue
SkipJob ==
  /\ prog = "scheduler" /\ pc = "jobs" /\ idx <= Len(jobs)
  /\ ~IsPubSub(jobs[idx])
  /\ idx' = idx + 1
  /\ UNCHANGED <<prog, jobs, duration, pc, exitCode, t, topics, entries, running,
                 invs, notified, ch, timerOn, fired, interrupts, cancelling, k,
                 busTopics, created, dels, stops,
                 ticks, passes, listenVars>>

\* client.CreateTopic and its error branch
CreateTopic ==
  /\ prog = "scheduler" /\ pc = "jobs" /\ idx <= Len(jobs)
  /\ IsPubSub(jobs[idx])
  /\ LET name == jobs[idx].topic IN
     \E err \in IF name \in busTopics THEN {TRUE} ELSE BOOLEAN :
       IF err
       THEN /\ StopTopics
            /\ Exit(1, "failedCreateTopic")
            /\ UNCHANGED <<t, busTopics, created>>
       ELSE /\ busTopics' = busTopics \cup {name}
            /\ created' = Append(created, name)
            /\ t' = name
            /\ pc' = "addfunc"
            /\ UNCHANGED <<exitCode, stops>>
  /\ UNCHANGED <<prog, jobs, duration, idx, topics, entries, running, invs,
                 notified, ch, timerOn, fired, interrupts, cancelling, k, dels,
                 ticks, passes, listenVars>>

\* c.AddFunc, its error branch, and topics = append(topics, t)
AddFunc ==
  /\ prog = "scheduler" /\ pc = "addfunc"
  /\ IF ValidCronspec(jobs[idx].freq)
     THEN /\ entries' = Append(entries, idx)
          /\ topics' = Append(topics, t)
          /\ idx' = idx + 1
          /\ pc' = "jobs"
          /\ UNCHANGED <<exitCode, stops>>
     ELSE /\ StopTopics
          /\ Exit(1, "failedAddFunc")
          /\ UNCHANGED <<entries, topics, idx>>
  /\ UNCHANGED <<prog, jobs, duration, t, running, invs, notified, ch, timerOn,
                 fired, interrupts, cancelling, k, busTopics, created, dels,
                 ticks, passes, listenVars>>

\* ch := make(chan os.Signal, 1); signal.Notify(ch, os.Interrupt)
Notify ==
  /\ prog = "scheduler" /\ pc = "jobs" /\ idx > Len(jobs)
  /\ notified' = TRUE
  /\ pc' = "start"
  /\ UNCHANGED <<prog, jobs, duration, exitCode, idx, t, topics, entries, running,
                 invs, ch, timerOn, fired, interrupts, cancelling, k,
                 busTopics, created, dels, stops,
                 ticks, passes, listenVars>>

\* c.Start()
Start ==
  /\ prog = "scheduler" /\ pc = "start"
  /\ running' = TRUE
  /\ pc' = "timer"
  /\ UNCHANGED <<prog, jobs, duration, exitCode, idx, t, topics, entries,
                 invs, notified, ch, timerOn, fired, interrupts, cancelling, k,
                 busTopics, created, dels, stops,
                 ticks, passes, listenVars>>

\* if *duration != 0 { timeout = time.NewTimer(*duration).C }
NewTimer ==
  /\ prog = "scheduler" /\ pc = "timer"
  /\ timerOn' = (duration # 0)
  /\ pc' = "select"
  /\ UNCHANGED <<prog, jobs, duration, exitCode, idx, t, topics, entries, running,
                 invs, notified, ch, fired, interrupts, cancelling, k,
                 busTopics, created, dels, stops,
                 ticks, passes, listenVars>>

\* select { case <-ch: case <-timeout: }; fmt.Println("cancelling")
Select ==
  /\ prog = "scheduler" /\ pc = "select"
  /\ \/ /\ ch > 0
        /\ ch' = ch - 1
     \/ /\ timerOn /\ fired
        /\ ch' = ch
  /\ cancelling' = TRUE
  /\ pc' = "stop"
  /\ UNCHANGED <<prog, jobs, duration, exitCode, idx, t, topics, entries, running,
                 invs, notified, timerOn, fired, interrupts, k,
                 busTopics, created, dels, stops,
                 ticks, passes, listenVars>>

\* c.Stop(): the clock loop takes the stop message and returns; the context
\* that reports the end of the running jobs is discarded by main
Stop ==
  /\ prog = "scheduler" /\ pc = "stop"
  /\ running' = FALSE
  /\ k' = 1
  /\ passes' = passes + 1
  /\ pc' = "delete"
  /\ UNCHANGED <<prog, jobs, duration, exitCode, idx, t, topics, entries,
                 invs, notified, ch, timerOn, fired, interrupts, cancelling,
                 busTopics, created, dels, stops,
                 ticks, listenVars>>

\* one iteration of the teardown loop: t.Delete, log.Fatalf on error
DeleteTopic ==
  /\ prog = "scheduler" /\ pc = "delete" /\ k <= Len(topics)
  /\ LET name == topics[k] IN
     /\ dels' = [dels EXCEPT ![name] = @ + 1]
     /\ \E err \in IF name \in busTopics THEN BOOLEAN ELSE {TRUE} :
          IF err
          THEN /\ Exit(1, "failedDelete")
               /\ UNCHANGED <<k, busTopics>>
          ELSE /\ busTopics' = busTopics \ {name}
               /\ k' = k + 1
               /\ UNCHANGED <<pc, exitCode>>
  /\ UNCHANGED <<prog, jobs, duration, idx, t, topics, entries, running, invs,
                 notified, ch, timerOn, fired, interrupts, cancelling,
                 created, stops,
                 ticks, passes, listenVars>>

\* variant of Return: a signal still buffered in ch starts the shutdown again
Return_HandlesPendingSignal ==
  /\ prog = "scheduler" /\ pc = "delete" /\ k > Len(topics)
  /\ IF ch > 0
     THEN /\ pc' = "stop"
          /\ UNCHANGED <<notified, exitCode>>
     ELSE /\ notified' = FALSE
          /\ Exit(0, "returned")
  /\ UNCHANGED <<prog, jobs, duration, idx, t, topics, entries, running, invs,
                 ch, timerOn, fired, interrupts, cancelling, k,
                 busTopics, created, dels, stops,
                 ticks, passes, listenVars>>

\* signal.Stop(ch) and return from main
Return ==
  /\ prog = "scheduler" /\ pc = "delete" /\ k > Len(topics)
  /\ notified' = FALSE
  /\ Exit(0, "returned")
  /\ UNCHANGED <<prog, jobs, duration, idx, t, topics, entries, running, invs,
                 ch, timerOn, fired, interrupts, cancelling, k,
                 busTopics, created, dels, stops,
                 ticks, passes, listenVars>>

\* ----------------------------------------------- scheduler: cron engine
\* variant of Tick: a trigger is dropped while an earlier run of the same
\* entry has not finished
Tick_SkipIfStillRunning(e) ==
  /\ prog = "scheduler" /\ Alive /\ running
  /\ Len(invs) < MaxTicks
  /\ ticks' = Append(ticks, e)
  /\ invs' = IF \E n \in 1..Len(invs) :
                    invs[n].entry = e /\ invs[n].st \in {"started", "waiting"}
             THEN invs
             ELSE Append(invs, [entry |-> e, st |-> "started", topic |-> NoTopic, data |-> ""])
  /\ UNCHANGED <<prog, jobs, duration, pc, exitCode, idx, t, topics, entries,
                 running, notified, ch, timerOn, fired, interrupts, cancelling,
                 k, busTopics, created, dels, stops,
                 passes, listenVars>>

\* the clock loop finds entry e due and starts its job in a new goroutine
Tick(e) ==
  /\ prog = "scheduler" /\ Alive /\ running
  /\ Len(invs) < MaxTicks
  /\ ticks' = Append(ticks, e)
  /\ invs' = Append(invs, [entry |-> e, st |-> "started", topic |-> NoTopic, data |-> ""])
  /\ UNCHANGED <<prog, jobs, duration, pc, exitCode, idx, t, topics, entries,
                 running, notified, ch, timerOn, fired, interrupts, cancelling,
                 k, busTopics, created, dels, stops,
                 passes, listenVars>>

\* res := t.Publish(...): the message, Data: []byte(j.Payload), is handed to
\* the publisher of the topic t of the closure
Publish(n) ==
  /\ prog = "scheduler" /\ Alive
  /\ invs[n].st = "started"
  /\ invs' = [invs EXCEPT ![n] = [entry |-> @.entry, st |-> "waiting",
                                   topic |-> topics[@.entry],
                                   data |-> jobs[entries[@.entry]].payload]]
  /\ UNCHANGED <<prog, jobs, duration, pc, exitCode, idx, t, topics, entries,
                 running, notified, ch, timerOn, fired, interrupts, cancelling,
                 k, busTopics, created, dels, stops,
                 ticks, passes, listenVars>>

\* variant of Get: a publish error is fatal
Get_FatalOnError(n) ==
  /\ prog = "scheduler" /\ Alive
  /\ invs[n].st = "waiting"
  /\ \E err \in IF topics[invs[n].entry] \in busTopics THEN BOOLEAN ELSE {TRUE} :
       /\ invs' = [invs EXCEPT ![n].st = IF err THEN "failed" ELSE "published"]
       /\ IF err THEN Exit(1, "failedPublish") ELSE UNCHANGED <<pc, exitCode>>
  /\ UNCHANGED <<prog, jobs, duration, idx, t, topics, entries,
                 running, notified, ch, timerOn, fired, interrupts, cancelling,
                 k, busTopics, created, dels, stops,
                 ticks, passes, listenVars>>

\* id, err := res.Get(context.Background()) returns, and the result is logged
Get(n) ==
  /\ prog = "scheduler" /\ Alive
  /\ invs[n].st = "waiting"
  /\ \E err \in IF topics[invs[n].entry] \in busTopics THEN BOOLEAN ELSE {TRUE} :
       invs' = [invs EXCEPT ![n].st = IF err THEN "failed" ELSE "published"]
  /\ UNCHANGED <<prog, jobs, duration, pc, exitCode, idx, t, topics, entries,
                 running, notified, ch, timerOn, fired, interrupts, cancelling,
                 k, busTopics, created, dels, stops,
                 ticks, passes, listenVars>>

\* ------------------------------------------------------------ environment
\* an interrupt signal reaches the process: buffered in ch when Notify is in
\* force (dropped when ch is full), otherwise the runtime ends the process
Interrupt ==
  /\ Alive /\ interrupts < MaxInterrupts
  /\ interrupts' = interrupts + 1
  /\ IF notified
     THEN /\ ch' = 1
          /\ UNCHANGED <<pc, exitCode>>
     ELSE /\ pc' = "killed"
          /\ exitCode' = 130
          /\ ch' = ch
  /\ UNCHANGED <<prog, jobs, duration, idx, t, topics, entries, running, invs,
                 notified, timerOn, fired, cancelling, k,
                 busTopics, created, dels, stops,
                 ticks, passes, listenVars>>

\* the run duration elapses: the scheduler's timer fires, the listener's
\* context passes its deadline
Expire ==
  /\ Alive /\ timerOn /\ ~fired
  /\ fired' = TRUE
  /\ ctxDone' = (ctxDone \/ prog = "listener")
  /\ UNCHANGED <<prog, jobs, duration, pc, exitCode, idx, t, topics, entries,
                 running, invs, notified, ch, timerOn, interrupts, cancelling,
                 k, busTopics, created, dels, stops, subs, all, topit, tasks,
                 watcher, busSubs, createdSubs, existed, sdels, it, itErr, after,
                 ticks, passes, defaultExp, subConfigs>>

\* ------------------------------------------------------- listener: main
\* the type switch on ExpirationPolicy: the value stored back, or failure
\* (log.Fatalf)
Normalised(exp) ==
  CASE exp.kind = "nil" -> [ok |-> TRUE, exp |-> exp]
    [] exp.kind = "string" ->
         IF ParseDuration(exp.text).ok
         THEN [ok |-> TRUE, exp |-> ExpDuration(ParseDuration(exp.text).sec)]
         ELSE [ok |-> FALSE, exp |-> exp]
    [] exp.kind = "int" -> [ok |-> TRUE, exp |-> ExpDuration(exp.n)]
    [] OTHER -> [ok |-> FALSE, exp |-> exp]

\* one iteration of the loop that normalises cfg.Subscriptions[i].Config.
\* ExpirationPolicy, and the end of that loop
Normalise ==
  /\ prog = "listener" /\ pc = "normalise"
  /\ IF idx > Len(subs)
     THEN /\ pc' = "context"
          /\ idx' = 1
          /\ UNCHANGED <<subs, exitCode>>
     ELSE IF Normalised(subs[idx].exp).ok
     THEN /\ subs' = [subs EXCEPT ![idx].exp = Normalised(@).exp]
          /\ idx' = idx + 1
          /\ UNCHANGED <<pc, exitCode>>
     ELSE /\ Exit(1, "failedConfig")
          /\ UNCHANGED <<subs, idx>>
  /\ UNCHANGED <<prog, duration, notified, ch, timerOn, fired, interrupts,
                 cancelling, busTopics, all, topit, ctxDone, tasks, watcher, busSubs,
                 createdSubs, existed, sdels, it, itErr, after, schedVars,
                 passes, defaultExp, subConfigs>>

\* ctx, cancel := context.WithCancel / WithTimeout; all := len(...) == 0;
\* topit := client.Topics(ctx)
WithContext ==
  /\ prog = "listener" /\ pc = "context"
  /\ timerOn' = (duration # 0)
  /\ all' = (Len(subs) = 0)
  /\ topit' = busTopics
  /\ pc' = "topics"
  /\ UNCHANGED <<prog, duration, exitCode, idx, notified, ch, fired, interrupts,
                 cancelling, busTopics, subs, ctxDone, tasks, watcher, busSubs,
                 createdSubs, existed, sdels, it, itErr, after, schedVars,
                 passes, defaultExp, subConfigs>>

\* variant of TopicsNext: a subscription is added for every topic, also when
\* subscriptions are configured
TopicsNext_AlwaysAdds ==
  /\ prog = "listener" /\ pc = "topics"
  /\ \/         /\ Exit(1, "failedTopics")
        /\ UNCHANGED <<subs, topit>>
     \/         /\ ~ctxDone /\ topit = {}
        /\ IF Len(subs) = 0
           THEN Exit(0, "noSubscriptions")
           ELSE /\ pc' = "subs"
                /\ UNCHANGED exitCode
        /\ UNCHANGED <<subs, topit>>
     \/         /\ ~ctxDone
        /\ \E id \in topit :
             /\ topit' = topit \ {id}
             /\ subs' = Append(subs, [topic |-> id, id |-> id, ack |-> 0, exp |-> ExpAbsent])
        /\ UNCHANGED <<pc, exitCode>>
  /\ UNCHANGED <<prog, duration, idx, notified, ch, timerOn, fired, interrupts,
                 cancelling, busTopics, all, ctxDone, tasks, watcher, busSubs,
                 createdSubs, existed, sdels, it, itErr, after, schedVars,
                 passes, defaultExp, subConfigs>>

\* one topit.Next() of the enumeration loop, and the test that follows the loop
TopicsNext ==
  /\ prog = "listener" /\ pc = "topics"
  /\ \/ \* error other than iterator.Done: log.Fatalf
        /\ Exit(1, "failedTopics")
        /\ UNCHANGED <<subs, topit>>
     \/ \* iterator.Done: break
        /\ ~ctxDone /\ topit = {}
        /\ IF Len(subs) = 0
           THEN Exit(0, "noSubscriptions")
           ELSE /\ pc' = "subs"
                /\ UNCHANGED exitCode
        /\ UNCHANGED <<subs, topit>>
     \/ \* a topic
        /\ ~ctxDone
        /\ \E id \in topit :
             /\ topit' = topit \ {id}
             /\ subs' = IF all
                        THEN Append(subs, [topic |-> id, id |-> id, ack |-> 0, exp |-> ExpAbsent])
                        ELSE subs
        /\ UNCHANGED <<pc, exitCode>>
  /\ UNCHANGED <<prog, duration, idx, notified, ch, timerOn, fired, interrupts,
                 cancelling, busTopics, all, ctxDone, tasks, watcher, busSubs,
                 createdSubs, existed, sdels, it, itErr, after, schedVars,
                 passes, defaultExp, subConfigs>>

\* subConfig := sub.Config; if isEmptyConfig(subConfig) { subConfig =
\* cfg.DefaultConfig }: the expiration policy of the subConfig
SubConfigExp(sub) == IF isEmptyConfig(sub) THEN defaultExp ELSE sub.exp

\* client.CreateSubscription for cfg.Subscriptions[idx] and what main does with
\* its answer: start the receive goroutine, continue, or clean up and exit
CreateSubscription ==
  /\ prog = "listener" /\ pc = "subs" /\ idx <= Len(subs)
  /\ subConfigs' = Append(subConfigs, SubConfigExp(subs[idx]))
  /\ LET sub == subs[idx]
         wellFormed == SubConfigExp(sub).kind \in {"nil", "duration"}
     IN
     \/ \* created: wg.Add(1); go func() { ... s.Receive ... }()
        /\ wellFormed
        /\ ~ctxDone /\ sub.id \notin busSubs /\ sub.topic \in busTopics
        /\ busSubs' = busSubs \cup {sub.id}
        /\ createdSubs' = Append(createdSubs, sub.id)
        /\ tasks' = Append(tasks, [sub |-> idx, st |-> "receiving"])
        /\ idx' = idx + 1
        /\ UNCHANGED <<pc, exitCode, existed, it, after, passes>>
     \/ \* codes.AlreadyExists: continue
        /\ wellFormed
        /\ ~ctxDone /\ sub.id \in busSubs
        /\ existed' = existed \cup {sub.id}
        /\ idx' = idx + 1
        /\ UNCHANGED <<pc, exitCode, busSubs, createdSubs, tasks, it, after, passes>>
     \/ \* any other error: deleteAllSubscriptions(client); os.Exit(1)
        /\ wellFormed
        /\ pc' = "deleteAll"
        /\ after' = "failure"
        /\ it' = busSubs
        /\ passes' = passes + 1
        /\ UNCHANGED <<idx, exitCode, busSubs, createdSubs, tasks, existed>>
     \/ \* the expiration policy is not a time.Duration: the client panics while
        \* it builds the request
        /\ ~wellFormed
        /\ Exit(2, "panicked")
        /\ UNCHANGED <<idx, busSubs, createdSubs, tasks, existed, it, after, passes>>
  /\ UNCHANGED <<prog, duration, notified, ch, timerOn, fired, interrupts,
                 cancelling, busTopics, subs, all, topit, ctxDone, watcher,
                 sdels, itErr, schedVars, defaultExp>>

\* ch := make(chan os.Signal, 1); signal.Notify(ch, os.Interrupt)
ListenNotify ==
  /\ prog = "listener" /\ pc = "subs" /\ idx > Len(subs)
  /\ notified' = TRUE
  /\ pc' = "watch"
  /\ UNCHANGED <<prog, duration, exitCode, idx, ch, timerOn, fired, interrupts,
                 cancelling, busTopics, listenVars, schedVars, passes>>

\* go func() { select {...}; cancel() }()
GoWatch ==
  /\ prog = "listener" /\ pc = "watch"
  /\ watcher' = "waiting"
  /\ pc' = "wait"
  /\ UNCHANGED <<prog, duration, exitCode, idx, notified, ch, timerOn, fired,
                 interrupts, cancelling, busTopics, subs, all, topit, ctxDone,
                 tasks, busSubs, createdSubs, existed, sdels, it, itErr, after,
                 schedVars,
                 passes, defaultExp, subConfigs>>

\* variant of WaitGroupZero: wg.Add(1) left out, so the counter is always zero
WaitGroupZero_NoAdd == TRUE

\* every receive goroutine has called wg.Done
WaitGroupZero == \A n \in 1..Len(tasks) : tasks[n].st # "receiving"

\* wg.Wait() returns; fmt.Println("cancelling"); deleteAllSubscriptions(client)
Wait ==
  /\ prog = "listener" /\ pc = "wait"
  /\ WaitGroupZero
  /\ cancelling' = TRUE
  /\ pc' = "deleteAll"
  /\ after' = "release"
  /\ it' = busSubs
  /\ passes' = passes + 1
  /\ UNCHANGED <<prog, duration, exitCode, idx, notified, ch, timerOn, fired,
                 interrupts, busTopics, subs, all, topit, ctxDone, tasks, watcher,
                 busSubs, createdSubs, existed, sdels, itErr, schedVars,
                 defaultExp, subConfigs>>

\* variant of DeleteAllNext: a failed s.Delete ends the loop
DeleteAllNext_FailFast ==
  /\ prog = "listener" /\ pc = "deleteAll"
  /\ \/ /\ itErr' = TRUE
        /\ UNCHANGED <<pc, it, sdels, busSubs>>
     \/ /\ ~itErr /\ it = {}
        /\ pc' = after
        /\ UNCHANGED <<it, sdels, busSubs, itErr>>
     \/ \E s \in it :
          /\ ~itErr
          /\ it' = it \ {s}
          /\ sdels' = [sdels EXCEPT ![s] = @ + 1]
          /\ \E err \in BOOLEAN :
               /\ busSubs' = IF err THEN busSubs ELSE busSubs \ {s}
               /\ pc' = IF err THEN after ELSE pc
          /\ UNCHANGED itErr
  /\ UNCHANGED <<prog, duration, exitCode, idx, notified, ch, timerOn, fired,
                 interrupts, cancelling, busTopics, subs, all, topit, ctxDone,
                 tasks, watcher, createdSubs, existed, after, schedVars,
                 passes, defaultExp, subConfigs>>

\* one iteration of the loop of deleteAllSubscriptions
DeleteAllNext ==
  /\ prog = "listener" /\ pc = "deleteAll"
  /\ \/ \* it.Next() fails: log and continue; the iterator keeps the error, so
        \* every later it.Next() of this pass fails the same way
        /\ itErr' = TRUE
        /\ UNCHANGED <<pc, it, sdels, busSubs>>
     \/ \* iterator.Done: break
        /\ ~itErr /\ it = {}
        /\ pc' = after
        /\ UNCHANGED <<it, sdels, busSubs, itErr>>
     \/ \* s.Delete, a failure is logged
        \E s \in it :
          /\ ~itErr
          /\ it' = it \ {s}
          /\ sdels' = [sdels EXCEPT ![s] = @ + 1]
          /\ \E err \in BOOLEAN :
               busSubs' = IF err THEN busSubs ELSE busSubs \ {s}
          /\ UNCHANGED <<pc, itErr>>
  /\ UNCHANGED <<prog, duration, exitCode, idx, notified, ch, timerOn, fired,
                 interrupts, cancelling, busTopics, subs, all, topit, ctxDone,
                 tasks, watcher, createdSubs, existed, after, schedVars,
                 passes, defaultExp, subConfigs>>

\* os.Exit(1) after the clean up of a failed creation
ExitFailure ==
  /\ prog = "listener" /\ pc = "failure"
  /\ Exit(1, "failedCreateSubscription")
  /\ UNCHANGED <<prog, duration, idx, notified, ch, timerOn, fired, interrupts,
                 cancelling, busTopics, listenVars, schedVars, passes>>

\* signal.Stop(ch) and return from main
Release ==
  /\ prog = "listener" /\ pc = "release"
  /\ notified' = FALSE
  /\ Exit(0, "returned")
  /\ UNCHANGED <<prog, duration, idx, ch, timerOn, fired, interrupts,
                 cancelling, busTopics, listenVars, schedVars, passes>>

\* ------------------------------------------------- listener: goroutines
\* the watcher's select takes a signal or sees ctx.Done(), then cancel()
Watch ==
  /\ prog = "listener" /\ Alive /\ watcher = "waiting"
  /\ \/ /\ ch > 0
        /\ ch' = ch - 1
     \/ /\ ctxDone
        /\ ch' = ch
  /\ ctxDone' = TRUE
  /\ watcher' = "done"
  /\ UNCHANGED <<prog, duration, pc, exitCode, idx, notified, timerOn, fired,
                 interrupts, cancelling, busTopics, subs, all, topit, tasks,
                 busSubs, createdSubs, existed, sdels, it, itErr, after,
                 schedVars,
                 passes, defaultExp, subConfigs>>

\* s.Receive returns because ctx is done; deferred wg.Done()
ReceiveReturn(n) ==
  /\ prog = "listener" /\ Alive
  /\ tasks[n].st = "receiving" /\ ctxDone
  /\ tasks' = [tasks EXCEPT ![n].st = "returned"]
  /\ UNCHANGED <<prog, duration, pc, exitCode, idx, notified, ch, timerOn, fired,
                 interrupts, cancelling, busTopics, subs, all, topit, ctxDone,
                 watcher, busSubs, createdSubs, existed, sdels, it, itErr, after,
                 schedVars,
                 passes, defaultExp, subConfigs>>

\* variant of ReceiveError: the failing task cancels the shared context
ReceiveError_CancelsAll(n) ==
  /\ prog = "listener" /\ Alive
  /\ tasks[n].st = "receiving"
  /\ tasks' = [tasks EXCEPT ![n].st = "failed"]
  /\ ctxDone' = TRUE
  /\ UNCHANGED <<prog, duration, pc, exitCode, idx, notified, ch, timerOn, fired,
                 interrupts, cancelling, busTopics, subs, all, topit,
                 watcher, busSubs, createdSubs, existed, sdels, it, itErr, after,
                 schedVars,
                 passes, defaultExp, subConfigs>>

\* s.Receive returns an error that is not a cancellation: logged, wg.Done()
ReceiveError(n) ==
  /\ prog = "listener" /\ Alive
  /\ tasks[n].st = "receiving"
  /\ tasks' = [tasks EXCEPT ![n].st = "failed"]
  /\ UNCHANGED <<prog, duration, pc, exitCode, idx, notified, ch, timerOn, fired,
                 interrupts, cancelling, busTopics, subs, all, topit, ctxDone,
                 watcher, busSubs, createdSubs, existed, sdels, it, itErr, after,
                 schedVars,
                 passes, defaultExp, subConfigs>>

Init == InitScheduler \/ InitListener

Next ==
  \/ SkipJob
  \/ CreateTopic
  \/ AddFunc
  \/ Notify
  \/ Start
  \/ NewTimer
  \/ Select
  \/ Stop
  \/ DeleteTopic
  \/ Return
  \/ \E e \in 1..Len(entries) : Tick(e)
  \/ \E n \in 1..Len(invs) : Publish(n)
  \/ \E n \in 1..Len(invs) : Get(n)
  \/ Normalise
  \/ WithContext
  \/ TopicsNext
  \/ CreateSubscription
  \/ ListenNotify
  \/ GoWatch
  \/ Wait
  \/ DeleteAllNext
  \/ ExitFailure
  \/ Release
  \/ Watch
  \/ \E n \in 1..Len(tasks) : ReceiveReturn(n)
  \/ \E n \in 1..Len(tasks) : ReceiveError(n)
  \/ Interrupt
  \/ Expire

Spec == Init /\ [][Next]_vars

\* Scheduling: main and every goroutine that can take a step eventually takes
\* it. Nothing is assumed of the bus and the operator: a receive loop need not
\* fail, a publish need not be answered, no interrupt need arrive.
Fairness ==
  /\ WF_vars(SkipJob) /\ WF_vars(CreateTopic) /\ WF_vars(AddFunc)
  /\ WF_vars(Notify) /\ WF_vars(Start) /\ WF_vars(NewTimer) /\ WF_vars(Select)
  /\ WF_vars(Stop) /\ WF_vars(DeleteTopic) /\ WF_vars(Return)
  /\ \A n \in 1..MaxTicks : WF_vars(n <= Len(invs) /\ Publish(n))
  /\ WF_vars(Normalise) /\ WF_vars(WithContext) /\ WF_vars(TopicsNext) /\ WF_vars(CreateSubscription)
  /\ WF_vars(ListenNotify) /\ WF_vars(GoWatch) /\ WF_vars(Wait)
  /\ WF_vars(DeleteAllNext) /\ WF_vars(ExitFailure) /\ WF_vars(Release)
  /\ WF_vars(Watch)
  /\ \A n \in 1..(MaxSubs + TopicCount) : WF_vars(n <= Len(tasks) /\ ReceiveReturn(n))

LiveSpec == Init /\ [][Next]_vars /\ Fairness

\* the steps of the listener
NextListener ==
  \/ Normalise
  \/ WithContext
  \/ TopicsNext
  \/ CreateSubscription
  \/ ListenNotify
  \/ GoWatch
  \/ Wait
  \/ DeleteAllNext
  \/ ExitFailure
  \/ Release
  \/ Watch
  \/ \E n \in 1..Len(tasks) : ReceiveReturn(n)
  \/ \E n \in 1..Len(tasks) : ReceiveError(n)
  \/ Interrupt
  \/ Expire

\* the listener run on the configurations of InitConfig
ConfigSpec == InitConfig /\ [][NextListener]_vars
\* =================================================================== claims
InFlight(n) == invs[n].st \in {"started", "waiting"}
Receiving(n) == tasks[n].st = "receiving"

\* C1: when the scheduler exits because CreateTopic failed, every topic this
\* run created before is gone from the bus, the status is non-zero and no
\* cron action was invoked.
C1_CreatedTopicsDeletedOnFailure ==
  (prog = "scheduler" /\ pc = "failedCreateTopic") =>
     /\ Range(created) \cap busTopics = {}
     /\ exitCode # 0
     /\ invs = <<>>

\* C2: a subscription that existed before this run asked for it (the answer
\* was AlreadyExists and this run did not create it) never gets a delete call
\* from this run.
C2_ExistingSubscriptionNeverDeleted ==
  prog = "listener" =>
     \A id \in existed \ Range(createdSubs) : sdels[id] = 0

\* C3: once a teardown pass is over, every resource that was pending deletion
\* had a delete call: the scheduler's registered topics after "cancelling",
\* the listener's listed subscriptions after deleteAllSubscriptions.
C3_TeardownIsBestEffort ==
  /\ (prog = "scheduler" /\ cancelling /\ ~Alive) =>
        \A n \in 1..Len(topics) : dels[topics[n]] >= 1
  /\ (prog = "listener" /\ pc \in {"failure", "release", "failedCreateSubscription", "returned"}) =>
        \A s \in busSubs : sdels[s] >= 1

\* C4: while the scheduler is in its topic deletion loop no publish action is
\* in flight: c.Stop() had waited for every running action.
C4_NoPublishInFlightDuringDeletion ==
  (prog = "scheduler" /\ pc = "delete") =>
     \A n \in 1..Len(invs) : ~InFlight(n)

C6_CancellingOnlyOnInterruptOrTimeout ==
  cancelling => (interrupts > 0 \/ (duration # 0 /\ fired))

\* C7: when the scheduler exits on an invalid cron expression, this run has
\* created no topic and none is left on the bus.
C7_InvalidCronspecBeforeAnyTopic ==
  (prog = "scheduler" /\ pc = "failedAddFunc") =>
     /\ created = <<>>
     /\ busTopics = {}

\* C8: outside the iteration that creates it every created topic is in the
\* topics registry, and when a shutdown triggered by interrupt or timeout is
\* over every created topic got exactly one delete call.
C8_CreatedTopicsTrackedAndDeletedOnce ==
  prog = "scheduler" =>
     /\ (Alive /\ pc # "addfunc") => Range(created) \subseteq Range(topics)
     /\ (cancelling /\ ~Alive) => \A n \in Range(created) : dels[n] = 1

C10_OneTaskPerSubscription ==
  (prog = "listener" /\ pc \in {"watch", "wait"}) =>
     \A i \in 1..Len(subs) : Cardinality({n \in 1..Len(tasks) : tasks[n].sub = i}) = 1

\* C11: the step in which one receive loop ends with a non-cancellation error
\* changes that task only: every other task keeps its state, the shared
\* context is not cancelled, no subscription is deleted and main neither
\* moves nor exits; and while one task has failed and another is still
\* receiving, the teardown after "cancelling" has not begun.
C11_ReceiveErrorIsContained ==
  /\ []((/\ prog = "listener"
          /\ \E n \in 1..Len(tasks) : tasks[n].st = "failed"
          /\ \E m \in 1..Len(tasks) : Receiving(m)) => ~cancelling)
  /\ [][\A n \in 1..Len(tasks) :
          (Receiving(n) /\ Len(tasks') = Len(tasks) /\ tasks'[n].st = "failed") =>
             /\ \A m \in 1..Len(tasks) : m # n => tasks'[m] = tasks[m]
             /\ ctxDone' = ctxDone
             /\ busSubs' = busSubs /\ sdels' = sdels
             /\ pc' = pc /\ exitCode' = exitCode]_vars

\* C11 witness: main waits, one receive loop has failed, another one is still
\* receiving and nothing was cancelled.
C11_Witness ==
  /\ prog = "listener" /\ pc = "wait" /\ Alive /\ ~ctxDone
  /\ \E n \in 1..Len(tasks) : tasks[n].st = "failed"
  /\ \E m \in 1..Len(tasks) : Receiving(m)

\* C12: in the listener, once an interrupt is buffered in ch or the run
\* duration has expired, the process eventually terminates.
C12_CancellationLeadsToTermination ==
  (prog = "listener" /\ (ch > 0 \/ fired)) ~> ~Alive

\* C13: when the scheduler has ended after cancellation, no publish goroutine
\* is left suspended in res.Get: each one returned once cancellation fired.
C13_SuspendedPublishObservesCancellation ==
  (prog = "scheduler" /\ cancelling /\ ~Alive) =>
     \A n \in 1..Len(invs) : invs[n].st # "waiting"

\* C14: every trigger of an entry has exactly one invocation of that entry's
\* action, in trigger order, whether or not earlier invocations are still
\* running, and an invocation that has called Publish has sent its job's
\* payload to its job's topic.
C14_EveryTriggerInvokesOnce ==
  prog = "scheduler" =>
     /\ Len(invs) = Len(ticks)
     /\ \A n \in 1..Len(invs) :
          /\ invs[n].entry = ticks[n]
          /\ invs[n].st # "started" =>
               /\ invs[n].data = jobs[entries[ticks[n]]].payload
               /\ invs[n].topic = jobs[entries[ticks[n]]].topic

\* C14 witness: the same entry has fired twice; the first invocation is still
\* in flight and the second has published.
C14_Witness ==
  /\ prog = "scheduler" /\ Len(ticks) = 2 /\ ticks[1] = ticks[2]
  /\ InFlight(1)
  /\ invs[2].st = "published"

\* C15: the step in which a publish fails changes that invocation only: the
\* cron engine keeps running, the entries stay registered, no topic is
\* deleted and main neither moves nor exits.
C15_PublishFailureIsContained ==
  [][\A n \in 1..Len(invs) :
       (invs[n].st = "waiting" /\ Len(invs') = Len(invs) /\ invs'[n].st = "failed") =>
          /\ running' = running /\ entries' = entries
          /\ busTopics' = busTopics /\ dels' = dels
          /\ pc' = pc /\ exitCode' = exitCode]_vars

\* C15 witness: a publish of an entry has failed, the engine is running and
\* the same entry has been invoked again.
C15_Witness ==
  /\ prog = "scheduler" /\ Alive /\ running
  /\ Len(invs) = 2 /\ invs[1].st = "failed"
  /\ invs[2].entry = invs[1].entry /\ invs[2].st = "started"

\* C16: every cron entry belongs to a job whose destination is Pub/Sub in some
\* letter case, and once the job loop has ended without a failure, with N jobs
\* of which M are not Pub/Sub, N - M topics have been created and N - M
\* entries registered.
C16_NonPubSubJobsAreSkipped ==
  prog = "scheduler" =>
     LET others == {i \in 1..Len(jobs) : jobs[i].dest \notin {"Pub/Sub", "pub/sub"}} IN
     /\ \A n \in 1..Len(entries) : entries[n] \notin others
     /\ ((pc = "jobs" /\ idx > Len(jobs)) \/ pc \in {"start", "timer", "select"}) =>
           /\ Len(created) = Len(jobs) - Cardinality(others)
           /\ Cardinality(busTopics) = Len(jobs) - Cardinality(others)
           /\ Len(entries) = Len(jobs) - Cardinality(others)

\* C16 witness: two jobs, one HTTP and one "Pub/Sub", startup is through and
\* one entry is registered.
C16_Witness ==
  /\ prog = "scheduler" /\ pc = "select" /\ Len(jobs) = 2
  /\ \E i, j \in 1..2 : jobs[i].dest = "HTTP" /\ jobs[j].dest = "Pub/Sub"
  /\ Len(entries) = 1

\* C17: once the topic enumeration is over, a listener configured without
\* subscriptions has exactly one subscription per visible topic, with id equal
\* to the topic and an empty Config, and hands the default configuration to
\* every CreateSubscription; with configured subscriptions the enumeration
\* adds nothing to the list.
C17_SynthesizedOnlyWhenNoneConfigured ==
  /\ []((prog = "listener" /\ all
           /\ pc \in {"subs", "watch", "wait", "deleteAll", "failure", "release", "returned",
                      "failedCreateSubscription", "panicked", "noSubscriptions"}) =>
          /\ Len(subs) = Cardinality(busTopics)
          /\ {subs[n].topic : n \in 1..Len(subs)} = busTopics
          /\ \A n \in 1..Len(subs) :
               subs[n].id = subs[n].topic /\ subs[n].ack = 0 /\ subs[n].exp = ExpAbsent
          /\ \A n \in 1..Len(subConfigs) : subConfigs[n] = defaultExp)
  /\ [][(prog = "listener" /\ pc = "topics" /\ ~all) => subs' = subs]_vars

\* C17 witness: nothing was configured, two topics are visible, two
\* subscriptions were synthesized and CreateSubscription was called with the
\* default configuration, whose expiration policy is not the zero value.
C17_Witness ==
  /\ prog = "listener" /\ all /\ Len(subs) = 2
  /\ defaultExp = ExpInt(3600)
  /\ Len(subConfigs) = 1 /\ subConfigs[1] = ExpInt(3600)

\* C18: an expiration policy handed to CreateSubscription is absent or a
\* duration; "1h" and 3600 normalise to the same duration and absent stays
\* absent; a configuration that is refused has created nothing.
C18_OnlyDurationsReachCreation ==
  prog = "listener" =>
     /\ \A n \in 1..Len(subConfigs) : subConfigs[n].kind \in {"nil", "duration"}
     /\ Normalised(ExpString("1h")).exp = Normalised(ExpInt(3600)).exp
     /\ Normalised(ExpAbsent).exp = ExpAbsent
     /\ pc = "failedConfig" => (createdSubs = <<>> /\ subConfigs = <<>>)

\* C19: no run begins a second resource deletion pass, no resource gets a
\* second delete call, and a run that returns from main has made one pass.
C19_ShutdownRunsOnce ==
  /\ passes <= 1
  /\ \A n \in TopicNames : dels[n] <= 1
  /\ \A n \in SubIDs : sdels[n] <= 1
  /\ pc = "returned" => passes = 1

\* C19 witness: the scheduler has returned after two interrupts and an expired
\* timer.
C19_Witness ==
  /\ prog = "scheduler" /\ pc = "returned"
  /\ interrupts >= 2 /\ fired
  /\ topics # <<>>

\* C20: a process that has ended and had been sent an interrupt has issued a
\* delete for every topic and every subscription it created.
C20_InterruptNeverLeaksResources ==
  (~Alive /\ interrupts > 0) =>
     /\ \A n \in Range(created) : dels[n] >= 1
     /\ \A n \in Range(createdSubs) : sdels[n] >= 1
====
